---- MODULE Spec2Model ----
(***************************************************************************)
(* A model of prompt_formatter.py: a Tk form whose fields are substituted  *)
(* into PROMPT_TEMPLATE by generate_prompt, with file loaders that fill    *)
(* the text areas.                                                         *)
(*                                                                         *)
(* Text is a sequence of symbols.  A symbol is one character ("[", "]",    *)
(* " ", a newline NL, a letter) or one run of characters that the program  *)
(* never looks inside: the name between the brackets of a placeholder, a   *)
(* stretch of the template's prose (which holds no bracket), a fixed       *)
(* literal such as "N/A".                                                  *)
(***************************************************************************)
EXTENDS Naturals, Sequences, FiniteSets, TLC

VARIABLES
    transcript_text_area,   \* content of the transcript ScrolledText
    date_entry,             \* content of the meeting date Entry
    body_entry,             \* content of the meeting body Entry
    report_type_var,        \* the StringVar behind the two radio buttons
    topic_entry,            \* content of the specific topic Entry
    topic_entry_state,      \* its -state option: "normal" or "disabled"
    docs_text_area,         \* content of the supporting docs ScrolledText
    style_text_area,        \* content of the style guidelines ScrolledText
    output_text_area,       \* content of the output ScrolledText
    messages,               \* message boxes raised by the latest user action
    filepaths               \* what the latest file dialog returned

vars == <<transcript_text_area, date_entry, body_entry, report_type_var,
          topic_entry, topic_entry_state, docs_text_area, style_text_area,
          output_text_area, messages, filepaths>>

----------------------------------------------------------------------------
(* Characters *)

NL == "NL"
SP == " "
Whitespace == {SP, NL}

NORMAL == "normal"
DISABLED == "disabled"

----------------------------------------------------------------------------
(* The template *)

Placeholder(name) == <<"[", name, "]">>

TOK_TRANSCRIPT == Placeholder("MEETING_TRANSCRIPT_TEXT")
TOK_DATE == Placeholder("MEETING_DATE")
TOK_BODY == Placeholder("MEETING_BODY")
TOK_REPORT_TYPE == Placeholder("REPORT_TYPE")
TOK_TOPIC == Placeholder("SPECIFIC_TOPIC")
TOK_DOCS == Placeholder("OPTIONAL_SUPPORTING_DOCS")
TOK_STYLE == Placeholder("STYLE_GUIDELINES")

Tokens ==
    {TOK_TRANSCRIPT, TOK_DATE, TOK_BODY, TOK_REPORT_TYPE, TOK_TOPIC, TOK_DOCS,
     TOK_STYLE}

\* The prose between two placeholders is one symbol, "L0" to "L11".
PROMPT_TEMPLATE ==
    <<"L0">> \o TOK_BODY \o <<"L1">> \o TOK_DATE \o <<"L2">> \o TOK_TRANSCRIPT
    \o <<"L3">> \o TOK_BODY \o <<"L4">> \o TOK_DATE \o <<"L5">>
    \o TOK_REPORT_TYPE \o <<"L6">> \o TOK_TOPIC \o <<"L7">> \o TOK_DOCS
    \o <<"L8">> \o TOK_STYLE \o <<"L9">> \o TOK_TOPIC \o <<"L10">>
    \o TOK_REPORT_TYPE \o <<"L11">>

COMPREHENSIVE == "Comprehensive"
TOPIC_SPECIFIC == "Topic-Specific"
NA == <<"N/A">>
NONE_PROVIDED == <<"None provided.">>

----------------------------------------------------------------------------
(* String operations *)

RECURSIVE LStrip(_)
LStrip(s) ==
    IF s # <<>> /\ Head(s) \in Whitespace THEN LStrip(Tail(s)) ELSE s

RECURSIVE RStrip(_)
RStrip(s) ==
    IF s # <<>> /\ s[Len(s)] \in Whitespace
    THEN RStrip(SubSeq(s, 1, Len(s) - 1))
    ELSE s

\* str.strip()
Strip(s) == RStrip(LStrip(s))

\* str.replace(old, new): every non-overlapping occurrence of old, found from
\* the left, becomes new; what was inserted is not scanned again.
RECURSIVE ReplaceFrom(_, _, _, _)
ReplaceFrom(s, old, new, i) ==
    IF i > Len(s) THEN <<>>
    ELSE IF i + Len(old) - 1 <= Len(s) /\ SubSeq(s, i, i + Len(old) - 1) = old
         THEN new \o ReplaceFrom(s, old, new, i + Len(old))
         ELSE <<s[i]>> \o ReplaceFrom(s, old, new, i + 1)

\* A slip: str.replace(old, new, 1), only the first occurrence.
RECURSIVE ReplaceFirst(_, _, _)
ReplaceFirst(s, old, new) ==
    IF s = <<>> THEN <<>>
    ELSE IF Len(old) <= Len(s) /\ SubSeq(s, 1, Len(old)) = old
         THEN new \o SubSeq(s, Len(old) + 1, Len(s))
         ELSE <<Head(s)>> \o ReplaceFirst(Tail(s), old, new)

Replace(s, old, new) == ReplaceFrom(s, old, new, 1)

\* Text.get("1.0", tk.END): the content and the newline Tk keeps at the end.
TextGet(content) == content \o <<NL>>

\* Entry.get()
EntryGet(content) == content

----------------------------------------------------------------------------
(* Message boxes *)

\* One messagebox call: showinfo, showwarning or showerror, its title, and the
\* file path and the count that its text names (<<>> and 0 when it names none).
Msg(kind, title, path, count) ==
    [kind |-> kind, title |-> title, path |-> path, count |-> count]

ShowError(title) == Msg("showerror", title, <<>>, 0)

----------------------------------------------------------------------------
(* generate_prompt *)

\* A slip: the topic entry is read whatever the report type.
SpecificTopicAlwaysRead(report_type, topic) == Strip(EntryGet(topic))

\* specific_topic: the entry's text for a topic-specific report, else "N/A".
SpecificTopic(report_type, topic) ==
    IF report_type = TOPIC_SPECIFIC THEN Strip(EntryGet(topic)) ELSE NA

\* `x if x else "None provided."`
OrNoneProvided(text) == IF text # <<>> THEN text ELSE NONE_PROVIDED

\* A slip: the check of the specific topic is left out.
InputErrorNoTopicCheck(transcript_text, meeting_date, meeting_body, report_type, specific_topic) ==
    IF transcript_text = <<>> THEN "Meeting Transcript text cannot be empty."
    ELSE IF meeting_date = <<>> THEN "Meeting Date cannot be empty."
    ELSE IF meeting_body = <<>> THEN "Meeting Body cannot be empty."
    ELSE ""

\* The basic validation: the text of the first input error, "" when the
\* inputs pass.
InputError(transcript_text, meeting_date, meeting_body, report_type, specific_topic) ==
    IF transcript_text = <<>> THEN "Meeting Transcript text cannot be empty."
    ELSE IF meeting_date = <<>> THEN "Meeting Date cannot be empty."
    ELSE IF meeting_body = <<>> THEN "Meeting Body cannot be empty."
    ELSE IF report_type = TOPIC_SPECIFIC /\ specific_topic = <<>>
         THEN "Specific Topic cannot be empty when Report Type is 'Topic-Specific'."
    ELSE ""

\* The seven replacements, in the order the code applies them.
\* f is the record of generate_prompt's seven locals.
Replacements(f) ==
    << <<TOK_TRANSCRIPT, f.transcript_text>>,
       <<TOK_DATE, f.meeting_date>>,
       <<TOK_BODY, f.meeting_body>>,
       <<TOK_REPORT_TYPE, <<f.report_type>> >>,
       <<TOK_TOPIC, f.specific_topic>>,
       <<TOK_DOCS, OrNoneProvided(f.supporting_docs)>>,
       <<TOK_STYLE, OrNoneProvided(f.style_guidelines)>> >>

\* formatted_prompt = formatted_prompt.replace(...), once per replacement.
RECURSIVE ApplyAll(_, _)
ApplyAll(doc, reps) ==
    IF reps = <<>> THEN doc
    ELSE ApplyAll(Replace(doc, Head(reps)[1], Head(reps)[2]), Tail(reps))

FormatPrompt(f) == ApplyAll(PROMPT_TEMPLATE, Replacements(f))

\* The values generate_prompt reads from the widgets (its seven locals).
GatherFields(transcript, date, body, report_type, topic, docs, style) ==
    [transcript_text |-> Strip(TextGet(transcript)),
     meeting_date |-> Strip(EntryGet(date)),
     meeting_body |-> Strip(EntryGet(body)),
     report_type |-> report_type,
     specific_topic |-> SpecificTopic(report_type, topic),
     supporting_docs |-> Strip(TextGet(docs)),
     style_guidelines |-> Strip(TextGet(style))]

\* The locals for the widgets' present contents.
Fields ==
    GatherFields(transcript_text_area, date_entry, body_entry, report_type_var,
                 topic_entry, docs_text_area, style_text_area)

generate_prompt ==
    LET f == Fields
        error == InputError(f.transcript_text, f.meeting_date, f.meeting_body,
                            f.report_type, f.specific_topic)
    IN  /\ IF error # ""
           THEN /\ messages' = <<ShowError("Input Error")>>
                /\ output_text_area' = output_text_area
           ELSE /\ messages' = <<>>
                /\ output_text_area' = FormatPrompt(f)
        /\ UNCHANGED <<transcript_text_area, date_entry, body_entry,
                       report_type_var, topic_entry, topic_entry_state,
                       docs_text_area, style_text_area, filepaths>>

----------------------------------------------------------------------------
(* The report type and the topic entry *)

\* Entry.delete(0, tk.END): a disabled entry ignores it.
EntryDelete(content, state) == IF state = DISABLED THEN content ELSE <<>>

\* A slip: the entry is disabled without being cleared.
UpdatedTopicEntryNoClear(report_type, content, state) ==
    [content |-> content,
     state |-> IF report_type = TOPIC_SPECIFIC THEN NORMAL ELSE DISABLED]

\* update_topic_entry_state: the topic entry's content and state afterwards.
UpdatedTopicEntry(report_type, content, state) ==
    IF report_type = TOPIC_SPECIFIC
    THEN [content |-> content, state |-> NORMAL]
    ELSE [content |-> EntryDelete(content, state), state |-> DISABLED]

\* A radio button writes the variable; the write trace runs
\* update_topic_entry_state.
select_report_type ==
    \E value \in {COMPREHENSIVE, TOPIC_SPECIFIC} :
        /\ report_type_var' = value
        /\ topic_entry' =
               UpdatedTopicEntry(value, topic_entry, topic_entry_state).content
        /\ topic_entry_state' =
               UpdatedTopicEntry(value, topic_entry, topic_entry_state).state
        /\ messages' = <<>>
        /\ UNCHANGED <<transcript_text_area, date_entry, body_entry,
                       docs_text_area, style_text_area, output_text_area,
                       filepaths>>

----------------------------------------------------------------------------
(* The user's edits: what the form lets a user put into each widget *)

TranscriptTyped == {<<>>, <<SP>>, <<SP, "x", NL>>, TOK_TOPIC}
DateTyped == {<<>>, <<SP>>, <<"d", SP>>}
BodyTyped == {<<>>, <<"b">>}
TopicTyped == {<<>>, <<SP>>, <<"t">>, TOK_TOPIC}
DocsTyped == {<<>>, <<"p">>}
StyleTyped == {<<>>, <<SP, "s">>}

EditOnly(widget) ==
    /\ messages' = <<>>
    /\ UNCHANGED <<report_type_var, topic_entry_state, output_text_area,
                   filepaths>>
    /\ widget # 1 => UNCHANGED transcript_text_area
    /\ widget # 2 => UNCHANGED date_entry
    /\ widget # 3 => UNCHANGED body_entry
    /\ widget # 4 => UNCHANGED topic_entry
    /\ widget # 5 => UNCHANGED docs_text_area
    /\ widget # 6 => UNCHANGED style_text_area

type_transcript ==
    \E text \in TranscriptTyped : transcript_text_area' = text /\ EditOnly(1)

type_date == \E text \in DateTyped : date_entry' = text /\ EditOnly(2)

type_body == \E text \in BodyTyped : body_entry' = text /\ EditOnly(3)

\* A disabled entry takes no input.
type_topic ==
    /\ topic_entry_state = NORMAL
    /\ \E text \in TopicTyped : topic_entry' = text /\ EditOnly(4)

type_docs == \E text \in DocsTyped : docs_text_area' = text /\ EditOnly(5)

type_style == \E text \in StyleTyped : style_text_area' = text /\ EditOnly(6)

----------------------------------------------------------------------------
(* The form: edits, report type, generate *)

\* The widgets as the GUI setup leaves them, after its call of
\* update_topic_entry_state.
Init ==
    /\ transcript_text_area = <<>>
    /\ date_entry = <<>>
    /\ body_entry = <<>>
    /\ report_type_var = COMPREHENSIVE
    /\ topic_entry = UpdatedTopicEntry(COMPREHENSIVE, <<>>, DISABLED).content
    /\ topic_entry_state = UpdatedTopicEntry(COMPREHENSIVE, <<>>, DISABLED).state
    /\ docs_text_area = <<>>
    /\ style_text_area = <<>>
    /\ output_text_area = <<>>
    /\ messages = <<>>
    /\ filepaths = <<>>

Next ==
    \/ type_transcript
    \/ type_date
    \/ type_body
    \/ type_topic
    \/ type_docs
    \/ type_style
    \/ select_report_type
    \/ generate_prompt

Spec == Init /\ [][Next]_vars

----------------------------------------------------------------------------
(* Reading a rendered document *)

Occurs(doc, sym) == \E i \in 1..Len(doc) : doc[i] = sym

FirstIndex(doc, sym) ==
    CHOOSE i \in 1..Len(doc) :
        doc[i] = sym /\ \A j \in 1..(i - 1) : doc[j] # sym

\* What the document holds between the template's prose pieces a and b, which
\* enclose one placeholder of the template.
Between(doc, a, b) ==
    IF Occurs(doc, a) /\ Occurs(doc, b)
    THEN SubSeq(doc, FirstIndex(doc, a) + 1, FirstIndex(doc, b) - 1)
    ELSE <<"?">>

\* The widgets' contents do not pass the validation of generate_prompt, as the
\* form's rules state it.
MissingRequired ==
    \/ Strip(transcript_text_area) = <<>>
    \/ Strip(date_entry) = <<>>
    \/ Strip(body_entry) = <<>>
    \/ report_type_var = TOPIC_SPECIFIC /\ Strip(topic_entry) = <<>>

InputErrorShown ==
    /\ Len(messages) = 1
    /\ messages[1].kind = "showerror"
    /\ messages[1].title = "Input Error"

----------------------------------------------------------------------------
(* Claims about the form *)

\* C3: rendering is all-or-nothing: a generate_prompt with the transcript, the
\* date or the body empty after trimming, or with a topic-specific report and
\* an empty trimmed topic, reports an input error and leaves the output
\* document exactly as it was.
C3_AllOrNothing ==
    [][generate_prompt /\ MissingRequired
           => InputErrorShown' /\ output_text_area' = output_text_area]_vars

\* An input error was reported for a missing topic while an earlier document
\* is still shown.
C3_Witness ==
    /\ InputErrorShown
    /\ output_text_area # <<>>
    /\ report_type_var = TOPIC_SPECIFIC
    /\ Strip(topic_entry) = <<>>
    /\ Strip(transcript_text_area) # <<>>
    /\ Strip(date_entry) # <<>>
    /\ Strip(body_entry) # <<>>

\* C4: a generate_prompt that succeeds with report type "Comprehensive" renders
\* both [SPECIFIC_TOPIC] positions of the template as "N/A", whatever was typed
\* into the topic entry before.
C4_ComprehensiveTopicIsNA ==
    [][generate_prompt /\ report_type_var = COMPREHENSIVE /\ ~MissingRequired
           => /\ Between(output_text_area', "L6", "L7") = NA
              /\ Between(output_text_area', "L9", "L10") = NA]_vars

\* A comprehensive document is shown whose topic positions read "N/A"; the
\* transcript itself was the text of the topic placeholder.
C4_Witness ==
    /\ report_type_var = COMPREHENSIVE
    /\ messages = <<>>
    /\ transcript_text_area = TOK_TOPIC
    /\ output_text_area = FormatPrompt(Fields)
    /\ Between(output_text_area, "L6", "L7") = NA
    /\ Between(output_text_area, "L2", "L3") = NA

\* C10: the topic entry is enabled exactly when the report type is
\* "Topic-Specific", and under "Comprehensive" it is disabled and empty.
C10_TopicEntryFollowsReportType ==
    /\ (topic_entry_state = NORMAL) <=> (report_type_var = TOPIC_SPECIFIC)
    /\ report_type_var = COMPREHENSIVE
           => topic_entry_state = DISABLED /\ topic_entry = <<>>

\* Back to "Comprehensive" after a topic-specific document on topic "t" was
\* generated: the typed topic is gone from the entry.
C10_Witness ==
    /\ report_type_var = COMPREHENSIVE
    /\ topic_entry = <<>>
    /\ topic_entry_state = DISABLED
    /\ Between(output_text_area, "L6", "L7") = <<"t">>

----------------------------------------------------------------------------
(* Rendering on its own: generate_prompt over a range of widget contents *)

RenderTranscripts ==
    {<<>>, <<"x">>, <<SP, "x", NL>>, TOK_DATE, TOK_TRANSCRIPT,
     <<"[", "MEETING_DATE">>, <<"[">> \o TOK_DATE}
RenderDates == {<<"d">>, <<"]">>, TOK_TRANSCRIPT, <<"MEETING_BODY", "]">>}
RenderBodies == {<<"b">>, <<SP>>, TOK_STYLE}
RenderTopics == {<<>>, <<"t">>, <<"[">>, TOK_DOCS}
RenderDocs ==
    {<<>>, <<NL, "p", NL>>, TOK_DOCS, TOK_STYLE, <<"[", "STYLE_GUIDELINES">>}
RenderStyles == {<<>>, <<"s">>, <<"]">>, TOK_TRANSCRIPT}

\* A form the user has filled in and not yet generated from.
InitRender ==
    /\ transcript_text_area \in RenderTranscripts
    /\ date_entry \in RenderDates
    /\ body_entry \in RenderBodies
    /\ report_type_var \in {COMPREHENSIVE, TOPIC_SPECIFIC}
    /\ topic_entry \in RenderTopics
    /\ report_type_var = COMPREHENSIVE => topic_entry = <<>>
    /\ topic_entry_state =
           UpdatedTopicEntry(report_type_var, topic_entry, NORMAL).state
    /\ docs_text_area \in RenderDocs
    /\ style_text_area \in RenderStyles
    /\ output_text_area = <<>>
    /\ messages = <<>>
    /\ filepaths = <<>>

NextRender == generate_prompt

SpecRender == InitRender /\ [][NextRender]_vars

Contains(s, sub) ==
    \E i \in 1..(Len(s) - Len(sub) + 1) : SubSeq(s, i, i + Len(sub) - 1) = sub

HasToken(s) == \E tok \in Tokens : Contains(s, tok)

\* The seven values that generate_prompt substitutes for the present contents.
Values == {Replacements(Fields)[k][2] : k \in 1..7}

\* generate_prompt has rendered the present contents (under SpecRender nothing
\* edits the widgets, and no rendered document is empty).
Rendered == output_text_area # <<>>

----------------------------------------------------------------------------
(* Claims about rendering *)

\* C1, as stated: for every field mapping that passes validation, the document
\* produced by generate_prompt contains none of the seven placeholder tokens.
C1_NoTokenRemains == Rendered => ~HasToken(output_text_area)

\* C1, amended: when no substituted value itself contains the text of a
\* placeholder token, the document produced by generate_prompt contains none
\* of the seven placeholder tokens.
C1_NoTokenRemainsUnlessInValue ==
    Rendered /\ (\A v \in Values : ~HasToken(v)) => ~HasToken(output_text_area)

\* A document rendered from values that hold brackets and a placeholder's
\* name, but no whole token.
C1_Witness ==
    /\ Rendered
    /\ \A v \in Values : ~HasToken(v)
    /\ transcript_text_area = <<"[", "MEETING_DATE">>
    /\ date_entry = <<"]">>
    /\ ~HasToken(output_text_area)

\* C2: a value is inserted verbatim, the text of a placeholder token inside it
\* included: each placeholder's position in the document reads the value
\* substituted for it.
C2_InsertedVerbatim ==
    Rendered =>
        /\ Between(output_text_area, "L0", "L1") = Fields.meeting_body
        /\ Between(output_text_area, "L1", "L2") = Fields.meeting_date
        /\ Between(output_text_area, "L2", "L3") = Fields.transcript_text
        /\ Between(output_text_area, "L3", "L4") = Fields.meeting_body
        /\ Between(output_text_area, "L4", "L5") = Fields.meeting_date
        /\ Between(output_text_area, "L6", "L7") = Fields.specific_topic
        /\ Between(output_text_area, "L7", "L8")
               = OrNoneProvided(Fields.supporting_docs)
        /\ Between(output_text_area, "L8", "L9")
               = OrNoneProvided(Fields.style_guidelines)

\* C5: the supporting docs and the style guidelines positions read "None
\* provided." when the trimmed text is empty, and the trimmed text otherwise.
C5_OptionalFallback ==
    Rendered =>
        /\ Between(output_text_area, "L7", "L8") =
               IF Strip(docs_text_area) = <<>> THEN NONE_PROVIDED
               ELSE Strip(docs_text_area)
        /\ Between(output_text_area, "L8", "L9") =
               IF Strip(style_text_area) = <<>> THEN NONE_PROVIDED
               ELSE Strip(style_text_area)

\* The orders in which seven replacements can be applied.
Orders == {p \in [1..7 -> 1..7] : \A i, j \in 1..7 : p[i] = p[j] => i = j}

\* C9: applying the seven replacements in any order yields the document that
\* generate_prompt produced.
C9_OrderIndependent ==
    Rendered =>
        \A p \in Orders :
            ApplyAll(PROMPT_TEMPLATE, [k \in 1..7 |-> Replacements(Fields)[p[k]]])
                = output_text_area

----------------------------------------------------------------------------
(* Files *)

\* Paths a file dialog can return: two files that can be read and two that
\* cannot (one that is gone, one that is not UTF-8).
FILE_A == <<"notes", "a.txt">>
FILE_B == <<"notes", "b.md">>
FILE_GONE == <<"notes", "gone.txt">>
FILE_BINARY == <<"other", "raw.bin">>

Paths == {FILE_A, FILE_B, FILE_GONE, FILE_BINARY}

\* open(filepath, 'r', encoding='utf-8') and f.read() succeed.
Readable(filepath) == filepath \in {FILE_A, FILE_B}

\* What f.read() returns.
FileContent(filepath) == IF filepath = FILE_A THEN <<"X", NL>> ELSE <<"Y">>

\* os.path.basename
Basename(filepath) == filepath[Len(filepath)]

\* A cancelled askopenfilename returns the empty string.
NO_PATH == <<>>

\* A slip: the text area is cleared when the read fails.
LoadedContentClearOnError(content, filepath) ==
    IF filepath = NO_PATH THEN [content |-> content, messages |-> <<>>]
    ELSE IF Readable(filepath)
    THEN [content |-> FileContent(filepath),
          messages |-> <<Msg("showinfo", "File Loaded", <<Basename(filepath)>>, 0)>>]
    ELSE [content |-> <<>>,
          messages |-> <<Msg("showerror", "Error Reading File", filepath, 0)>>]

\* _load_file_content past the dialog: the widget's content afterwards and the
\* message boxes shown.
LoadedContent(content, filepath) ==
    IF filepath = NO_PATH THEN [content |-> content, messages |-> <<>>]
    ELSE IF Readable(filepath)
    THEN [content |-> FileContent(filepath),
          messages |-> <<Msg("showinfo", "File Loaded", <<Basename(filepath)>>, 0)>>]
    ELSE [content |-> content,
          messages |-> <<Msg("showerror", "Error Reading File", filepath, 0)>>]

\* filedialog.askopenfilename: a path, or NO_PATH.
AskOpenFilename == Paths \cup {NO_PATH}

load_transcript_file ==
    \E filepath \in AskOpenFilename :
        /\ filepaths' = IF filepath = NO_PATH THEN <<>> ELSE <<filepath>>
        /\ transcript_text_area' =
               LoadedContent(transcript_text_area, filepath).content
        /\ messages' = LoadedContent(transcript_text_area, filepath).messages
        /\ UNCHANGED <<date_entry, body_entry, report_type_var, topic_entry,
                       topic_entry_state, docs_text_area, style_text_area,
                       output_text_area>>

load_style_file ==
    \E filepath \in AskOpenFilename :
        /\ filepaths' = IF filepath = NO_PATH THEN <<>> ELSE <<filepath>>
        /\ style_text_area' = LoadedContent(style_text_area, filepath).content
        /\ messages' = LoadedContent(style_text_area, filepath).messages
        /\ UNCHANGED <<date_entry, body_entry, report_type_var, topic_entry,
                       topic_entry_state, docs_text_area, transcript_text_area,
                       output_text_area>>

\* A selection holds at most MaxFiles files; the supporting docs take another
\* batch while they hold at most MaxDocsLen symbols.
MaxFiles == 2
MaxDocsLen == 10

\* filedialog.askopenfilenames: distinct paths in the order selected; the empty
\* tuple when cancelled.
AskOpenFilenames ==
    UNION {{sel \in [1..n -> Paths] : \A i, j \in 1..n : sel[i] = sel[j] => i = j}
               : n \in 0..MaxFiles}

\* separator = f"\n\n--- Supporting Doc: {filename} ---\n\n"
Separator(filename) ==
    <<NL, NL, "--- Supporting Doc: ", filename, " ---", NL, NL>>

\* A slip: the text goes in at "1.0" instead of tk.END.
TextInsertAtStart(content, text) == text \o content

\* Text.insert(tk.END, text)
TextInsertEnd(content, text) == content \o text

\* A slip: the first file that cannot be read ends the batch.
RECURSIVE AppendLoopStopAtFailure(_, _)
AppendLoopStopAtFailure(acc, paths) ==
    IF paths = <<>> THEN acc
    ELSE IF Readable(Head(paths))
    THEN AppendLoopStopAtFailure(
             [content |-> TextInsertEnd(
                              TextInsertEnd(acc.content,
                                            Separator(Basename(Head(paths)))),
                              FileContent(Head(paths))),
              files_loaded_count |-> acc.files_loaded_count + 1,
              messages |-> acc.messages],
             Tail(paths))
    ELSE [acc EXCEPT !.messages =
              Append(@, Msg("showwarning", "Error Reading File", Head(paths), 0))]

\* The for loop of load_and_append_docs_files over the paths left; acc holds
\* the text area's content, files_loaded_count and the message boxes so far.
RECURSIVE AppendLoop(_, _)
AppendLoop(acc, paths) ==
    IF paths = <<>> THEN acc
    ELSE IF Readable(Head(paths))
    THEN AppendLoop(
             [content |-> TextInsertEnd(
                              TextInsertEnd(acc.content,
                                            Separator(Basename(Head(paths)))),
                              FileContent(Head(paths))),
              files_loaded_count |-> acc.files_loaded_count + 1,
              messages |-> acc.messages],
             Tail(paths))
    ELSE AppendLoop(
             [acc EXCEPT !.messages =
                  Append(@, Msg("showwarning", "Error Reading File",
                                Head(paths), 0))],
             Tail(paths))

\* The summary shown after the loop.
FilesAppended(files_loaded_count) ==
    IF files_loaded_count > 0
    THEN <<Msg("showinfo", "Files Appended", <<>>, files_loaded_count)>>
    ELSE <<>>

load_and_append_docs_files ==
    /\ Len(docs_text_area) <= MaxDocsLen
    /\ \E selected \in AskOpenFilenames :
        LET done == AppendLoop([content |-> docs_text_area,
                                files_loaded_count |-> 0,
                                messages |-> <<>>], selected)
        IN  /\ filepaths' = selected
            /\ docs_text_area' = done.content
            /\ messages' =
                   done.messages \o FilesAppended(done.files_loaded_count)
            /\ UNCHANGED <<transcript_text_area, date_entry, body_entry,
                           report_type_var, topic_entry, topic_entry_state,
                           style_text_area, output_text_area>>

NextFiles ==
    \/ type_transcript
    \/ type_docs
    \/ type_style
    \/ load_transcript_file
    \/ load_style_file
    \/ load_and_append_docs_files

SpecFiles == Init /\ [][NextFiles]_vars

----------------------------------------------------------------------------
(* Claims about the file loaders *)

\* A file's labeled separator immediately followed by its content.
Segment(filepath) == Separator(Basename(filepath)) \o FileContent(filepath)

\* text holds sub at index i.
At(text, i, sub) ==
    i + Len(sub) - 1 <= Len(text) /\ SubSeq(text, i, i + Len(sub) - 1) = sub

\* The segments of the readable files of a selection, joined in its order.
RECURSIVE Joined(_)
Joined(paths) ==
    IF paths = <<>> THEN <<>>
    ELSE (IF Readable(Head(paths)) THEN Segment(Head(paths)) ELSE <<>>)
             \o Joined(Tail(paths))

NumReadable(paths) == Cardinality({i \in 1..Len(paths) : Readable(paths[i])})

IsWarning(msg) == msg.kind = "showwarning"
IsInfo(msg) == msg.kind = "showinfo"

\* C6: after load_and_append_docs_files, what the buffer held before is an
\* unchanged prefix, and for readable files A selected before B, A's separator
\* and content lie in the appended text strictly before B's separator and
\* content.
C6_AppendedInSelectionOrder ==
    [][load_and_append_docs_files =>
         /\ At(docs_text_area', 1, docs_text_area)
         /\ \A a, b \in 1..Len(filepaths') :
                a < b /\ Readable(filepaths'[a]) /\ Readable(filepaths'[b]) =>
                    \E i, j \in (Len(docs_text_area) + 1)..Len(docs_text_area') :
                        /\ At(docs_text_area', i, Segment(filepaths'[a]))
                        /\ At(docs_text_area', j, Segment(filepaths'[b]))
                        /\ i + Len(Segment(filepaths'[a])) <= j]_vars

\* B then A were appended to a buffer that held typed text.
C6_Witness ==
    /\ filepaths = <<FILE_B, FILE_A>>
    /\ docs_text_area = <<"p">> \o Segment(FILE_B) \o Segment(FILE_A)
    /\ Len(messages) = 1 /\ messages[1].count = 2

\* What C7 says of the buffer and of the per-file reports: the readable files'
\* segments are appended in order and nothing for a file whose read failed;
\* each such file has a warning of its own, in order.
SkippedAndReported ==
    /\ docs_text_area' = docs_text_area \o Joined(filepaths')
    /\ \A k \in 1..Len(filepaths') :
           ~Readable(filepaths'[k]) =>
               ~Contains(SubSeq(docs_text_area', Len(docs_text_area) + 1,
                                Len(docs_text_area')),
                         Separator(Basename(filepaths'[k])))
    /\ SelectSeq(messages', IsWarning) =
           [k \in 1..(Len(filepaths') - NumReadable(filepaths')) |->
                Msg("showwarning", "Error Reading File",
                    SelectSeq(filepaths', LAMBDA q : ~Readable(q))[k], 0)]

\* The batch's last message box is the summary, with the number read.
SummaryShown ==
    /\ messages' # <<>>
    /\ messages'[Len(messages')] =
           Msg("showinfo", "Files Appended", <<>>, NumReadable(filepaths'))
    /\ Len(SelectSeq(messages', IsInfo)) = 1

\* C7, as stated: in a multi-file append a file whose read fails is skipped
\* and reported on its own, the remaining files are processed in order, and
\* the batch is followed by a summary of how many files succeeded, for every
\* combination of succeeding and failing files.
C7_SkipReportAndSummary ==
    [][load_and_append_docs_files /\ filepaths' # <<>>
           => SkippedAndReported /\ SummaryShown]_vars

\* C7, amended: as stated, but the summary follows the batch only when at
\* least one file was read; when every selected file fails, the warnings are
\* all that is shown.
C7_SkipReportAndSummaryIfAnyRead ==
    [][load_and_append_docs_files /\ filepaths' # <<>>
           => /\ SkippedAndReported
              /\ IF NumReadable(filepaths') > 0 THEN SummaryShown
                 ELSE SelectSeq(messages', IsInfo) = <<>>]_vars

\* A file that cannot be read came first in the selection: it was reported,
\* the file after it was appended, and the summary counts one.
C7_Witness ==
    /\ filepaths = <<FILE_GONE, FILE_A>>
    /\ messages = <<Msg("showwarning", "Error Reading File", FILE_GONE, 0),
                    Msg("showinfo", "Files Appended", <<>>, 1)>>
    /\ Contains(docs_text_area, Segment(FILE_A))
    /\ ~Contains(docs_text_area, Separator(Basename(FILE_GONE)))

\* What C8 says of one text area over one single-file load.
SingleLoad(before, after) ==
    IF filepaths' # <<>> /\ Readable(filepaths'[1])
    THEN after = FileContent(filepaths'[1])
    ELSE after = before

\* C8: a single-file load that is cancelled or whose read fails leaves the
\* text area's content untouched; a successful read replaces the whole content
\* by the file's.
C8_SingleLoadKeepsContentOnFailure ==
    [][/\ load_transcript_file =>
              SingleLoad(transcript_text_area, transcript_text_area')
       /\ load_style_file => SingleLoad(style_text_area, style_text_area')]_vars

\* A read failed while the transcript held a file loaded before.
C8_Witness ==
    /\ filepaths = <<FILE_GONE>>
    /\ messages = <<Msg("showerror", "Error Reading File", FILE_GONE, 0)>>
    /\ transcript_text_area = FileContent(FILE_A)

====
